---------------------------- MODULE Spec2Model ----------------------------
(***************************************************************************)
(* create-workflows.py: create the directory f:/pulse1/.github/workflows   *)
(* (with its missing parents), write five literal payloads into it, print  *)
(* one confirmation line.                                                  *)
(*                                                                         *)
(* The filesystem is the state.  The path is the chain                     *)
(*     0 = f:/   1 = pulse1   2 = .github   3 = workflows                  *)
(* where node 0 is the path's anchor, which exists (a volume cannot be     *)
(* created by mkdir).  File data is a sequence of bytes; every chunk of    *)
(* payload text without a line break is one token, the line break is LF.   *)
(***************************************************************************)
EXTENDS Integers, Sequences, FiniteSets

\* ------------------------------------------------------------------ bounds
MaxRuns == 2          \* invocations of the script in one behaviour
MaxObstructed == 1    \* entries of the initial target directory that cannot be written

\* --------------------------------------------------------------- constants
LF == "\n"
CR == "\r"

\* index of the target directory in the chain (src line 4)
workflows_dir == 3

\* the five write statements, in program order, named by their path variable
Docs == <<"ci_yml", "staging_yml", "production_yml", "lighthouse_yml", "security_yml">>
DocVars == {Docs[i] : i \in 1..Len(Docs)}

\* copy-paste slip: the staging path reuses the ci.yml filename
PathOfCollide(v) ==
    CASE v = "ci_yml"         -> "ci.yml"
      [] v = "staging_yml"    -> "ci.yml"
      [] v = "production_yml" -> "deploy-production.yml"
      [] v = "lighthouse_yml" -> "lighthouse.yml"
      [] v = "security_yml"   -> "security-scan.yml"

\* workflows_dir / '<filename>': the entry of the target directory each variable names
PathOf(v) ==
    CASE v = "ci_yml"         -> "ci.yml"
      [] v = "staging_yml"    -> "deploy-staging.yml"
      [] v = "production_yml" -> "deploy-production.yml"
      [] v = "lighthouse_yml" -> "lighthouse.yml"
      [] v = "security_yml"   -> "security-scan.yml"

ci_yml == PathOf("ci_yml")
staging_yml == PathOf("staging_yml")
production_yml == PathOf("production_yml")
lighthouse_yml == PathOf("lighthouse_yml")
security_yml == PathOf("security_yml")

DocNames == {PathOf(v) : v \in DocVars}

\* a file of the target directory, and one beside it, that the script does not name
OtherName == "dependabot.yml"
Names == DocNames \cup {OtherName}

\* the literal payloads: first line, line break, the remaining lines, final line break
Payload(v) ==
    CASE v = "ci_yml"         -> <<"name: Continuous Integration", LF, "ci:10-114", LF>>
      [] v = "staging_yml"    -> <<"name: Deploy to Staging", LF, "staging:120-184", LF>>
      [] v = "production_yml" -> <<"name: Deploy to Production", LF, "production:190-307", LF>>
      [] v = "lighthouse_yml" -> <<"name: Lighthouse CI", LF, "lighthouse:313-348", LF>>
      [] v = "security_yml"   -> <<"name: Security Scanning", LF, "security:354-412", LF>>

Message == "GitHub Actions workflows created successfully!"

\* content of a file that was there before the first run
StaleText == <<"stale", LF>>

VARIABLES
    linesep,    \* os.linesep of the platform: <<LF>> or <<CR, LF>>
    dirs,       \* chain node -> [kind, w]
    files,      \* entry name of the target directory -> [kind, data, w]
    outside,    \* .github/dependabot.yml, a file beside the target directory
    pc,         \* statement the run is at, or "done" / "error"
    err,        \* the OSError the run died with, "" if none
    log,        \* filesystem operations attempted by the current run, in order
    stdout,     \* lines printed by the current run
    runs,       \* number of the current run
    pre,        \* filesystem at the start of the current run
    prev,       \* how the previous run ended, and the filesystem it left
    wpc         \* concurrent variant: position of each writer process

vars == <<linesep, dirs, files, outside, pc, err, log, stdout, runs, pre, prev, wpc>>

Absent == [kind |-> "absent", data |-> <<>>, w |-> FALSE]
File(data, w) == [kind |-> "file", data |-> data, w |-> w]
Directory == [kind |-> "dir", data |-> <<>>, w |-> TRUE]

\* ------------------------------------------------------- text conversions
\* io.TextIOWrapper on write (newline=None): every "\n" becomes os.linesep;
\* utf-8 leaves the ASCII payload text as it is
RECURSIVE Encode(_, _)
Encode(text, sep) ==
    IF text = <<>> THEN <<>>
    ELSE IF Head(text) = LF THEN sep \o Encode(Tail(text), sep)
    ELSE <<Head(text)>> \o Encode(Tail(text), sep)

\* reading back in text mode (universal newlines): "\r\n" and "\r" become "\n"
RECURSIVE ReadText(_)
ReadText(data) ==
    IF data = <<>> THEN <<>>
    ELSE IF Head(data) = CR
         THEN IF Len(data) > 1 /\ data[2] = LF
              THEN <<LF>> \o ReadText(Tail(Tail(data)))
              ELSE <<LF>> \o ReadText(Tail(data))
    ELSE <<Head(data)>> \o ReadText(Tail(data))

\* ----------------------------------------------------------- os.mkdir
\* a mkdir that replaces a non-directory in its way instead of failing
OsMkdirClobber(d, i) ==
    IF i = 0 THEN [dirs |-> d, err |-> "EEXIST"]
    ELSE IF \E k \in 0..(i-1) : d[k].kind = "file" THEN [dirs |-> d, err |-> "ENOTDIR"]
    ELSE IF d[i-1].kind = "absent" THEN [dirs |-> d, err |-> "ENOENT"]
    ELSE IF d[i].kind = "dir" THEN [dirs |-> d, err |-> "EEXIST"]
    ELSE IF ~d[i-1].w THEN [dirs |-> d, err |-> "EACCES"]
    ELSE [dirs |-> [d EXCEPT ![i] = [kind |-> "dir", w |-> TRUE]], err |-> ""]

\* os.mkdir(node i): the errno the kernel returns, "" and the new chain on success
OsMkdir(d, i) ==
    IF i = 0 THEN [dirs |-> d, err |-> "EEXIST"]
    ELSE IF \E k \in 0..(i-1) : d[k].kind = "file" THEN [dirs |-> d, err |-> "ENOTDIR"]
    ELSE IF d[i-1].kind = "absent" THEN [dirs |-> d, err |-> "ENOENT"]
    ELSE IF d[i].kind # "absent" THEN [dirs |-> d, err |-> "EEXIST"]
    ELSE IF ~d[i-1].w THEN [dirs |-> d, err |-> "EACCES"]
    ELSE [dirs |-> [d EXCEPT ![i] = [kind |-> "dir", w |-> TRUE]], err |-> ""]

\* mkdir called without parents=True: a missing parent is an error
PathMkdirNoParents(d, i, parents, exist_ok) ==
    LET r == OsMkdir(d, i) IN
    IF r.err = "" THEN r
    ELSE IF r.err = "ENOENT" THEN r
    ELSE IF ~exist_ok \/ d[i].kind # "dir" THEN r
    ELSE [dirs |-> d, err |-> ""]

\* pathlib.Path.mkdir(parents, exist_ok)
RECURSIVE PathMkdir(_, _, _, _)
PathMkdir(d, i, parents, exist_ok) ==
    LET r == OsMkdir(d, i) IN
    IF r.err = "" THEN r
    ELSE IF r.err = "ENOENT"
         THEN IF ~parents \/ i = 0 THEN r
              ELSE LET p == PathMkdir(d, i - 1, TRUE, TRUE) IN
                   IF p.err # "" THEN p
                   ELSE PathMkdir(p.dirs, i, FALSE, exist_ok)
    ELSE IF ~exist_ok \/ d[i].kind # "dir" THEN r
    ELSE [dirs |-> d, err |-> ""]

\* ----------------------------------------------------------- write_text
\* open(path, 'a'): no O_TRUNC, the old data stays
OsOpenWAppend(d, f, name) ==
    IF \E k \in 0..(workflows_dir-1) : d[k].kind = "file" THEN [files |-> f, err |-> "ENOTDIR"]
    ELSE IF d[workflows_dir].kind = "absent" THEN [files |-> f, err |-> "ENOENT"]
    ELSE IF d[workflows_dir].kind = "file" THEN [files |-> f, err |-> "ENOTDIR"]
    ELSE IF f[name].kind = "dir" THEN [files |-> f, err |-> "EISDIR"]
    ELSE IF f[name].kind = "file"
         THEN IF ~f[name].w THEN [files |-> f, err |-> "EACCES"]
              ELSE [files |-> f, err |-> ""]
    ELSE IF ~d[workflows_dir].w THEN [files |-> f, err |-> "EACCES"]
    ELSE [files |-> [f EXCEPT ![name] = File(<<>>, TRUE)], err |-> ""]

\* open(path, 'x'): O_EXCL, an existing file is an error
OsOpenWExclusive(d, f, name) ==
    IF \E k \in 0..(workflows_dir-1) : d[k].kind = "file" THEN [files |-> f, err |-> "ENOTDIR"]
    ELSE IF d[workflows_dir].kind = "absent" THEN [files |-> f, err |-> "ENOENT"]
    ELSE IF d[workflows_dir].kind = "file" THEN [files |-> f, err |-> "ENOTDIR"]
    ELSE IF f[name].kind # "absent" THEN [files |-> f, err |-> "EEXIST"]
    ELSE IF ~d[workflows_dir].w THEN [files |-> f, err |-> "EACCES"]
    ELSE [files |-> [f EXCEPT ![name] = File(<<>>, TRUE)], err |-> ""]

\* open(path, 'w'): O_WRONLY | O_CREAT | O_TRUNC on an entry of the target directory
OsOpenW(d, f, name) ==
    IF \E k \in 0..(workflows_dir-1) : d[k].kind = "file" THEN [files |-> f, err |-> "ENOTDIR"]
    ELSE IF d[workflows_dir].kind = "absent" THEN [files |-> f, err |-> "ENOENT"]
    ELSE IF d[workflows_dir].kind = "file" THEN [files |-> f, err |-> "ENOTDIR"]
    ELSE IF f[name].kind = "dir" THEN [files |-> f, err |-> "EISDIR"]
    ELSE IF f[name].kind = "file"
         THEN IF ~f[name].w THEN [files |-> f, err |-> "EACCES"]
              ELSE [files |-> [f EXCEPT ![name].data = <<>>], err |-> ""]
    ELSE IF ~d[workflows_dir].w THEN [files |-> f, err |-> "EACCES"]
    ELSE [files |-> [f EXCEPT ![name] = File(<<>>, TRUE)], err |-> ""]

\* f.write(data) on the opened file, then close
OsWrite(f, name, text, sep) ==
    [f EXCEPT ![name].data = f[name].data \o Encode(text, sep)]

\* pathlib.Path.write_text(data, encoding='utf-8')
WriteText(d, f, name, text, sep) ==
    LET o == OsOpenW(d, f, name) IN
    IF o.err # "" THEN o
    ELSE [files |-> OsWrite(o.files, name, text, sep), err |-> ""]

\* ------------------------------------------------------------ the script
\* the last write statement left out of the sequence
NextPcSkip(p) ==
    CASE p = "mkdir"          -> "ci_yml"
      [] p = "ci_yml"         -> "staging_yml"
      [] p = "staging_yml"    -> "production_yml"
      [] p = "production_yml" -> "lighthouse_yml"
      [] p = "lighthouse_yml" -> "print"
      [] p = "security_yml"   -> "print"
      [] p = "print"          -> "done"

\* the staging and production statements in the other order
NextPcSwapped(p) ==
    CASE p = "mkdir"          -> "ci_yml"
      [] p = "ci_yml"         -> "production_yml"
      [] p = "production_yml" -> "staging_yml"
      [] p = "staging_yml"    -> "lighthouse_yml"
      [] p = "lighthouse_yml" -> "security_yml"
      [] p = "security_yml"   -> "print"
      [] p = "print"          -> "done"

\* the statement after each statement of the script
NextPc(p) ==
    CASE p = "mkdir"          -> "ci_yml"
      [] p = "ci_yml"         -> "staging_yml"
      [] p = "staging_yml"    -> "production_yml"
      [] p = "production_yml" -> "lighthouse_yml"
      [] p = "lighthouse_yml" -> "security_yml"
      [] p = "security_yml"   -> "print"
      [] p = "print"          -> "done"

\* every statement wrapped in try/except: pass
AfterSwallow(p, e) == NextPc(p)

\* module-level statements without try/except: an exception ends the script
After(p, e) == IF e = "" THEN NextPc(p) ELSE "error"

Snapshot == [dirs |-> dirs, files |-> files, outside |-> outside]

\* ------------------------------------------------------------- initial fs
ChainOK(d) ==
    /\ d[0].kind = "dir"
    /\ \A i \in 1..workflows_dir : d[i-1].kind # "dir" => d[i].kind = "absent"
    /\ \A i \in 0..workflows_dir : d[i].kind # "dir" => d[i].w = FALSE

InitEntries ==
    {Absent, File(Encode(StaleText, linesep), TRUE), File(Encode(StaleText, linesep), FALSE), Directory}

\* an entry that open(path, 'w') will refuse in a target directory with write bit w
Obstructed(e, w) ==
    \/ e.kind = "dir"
    \/ e.kind = "file" /\ ~e.w
    \/ e.kind = "absent" /\ ~w

Init ==
    /\ linesep \in {<<LF>>, <<CR, LF>>}
    /\ dirs \in [0..workflows_dir -> [kind : {"absent", "dir", "file"}, w : BOOLEAN]]
    /\ ChainOK(dirs)
    /\ files \in [Names -> InitEntries]
    /\ dirs[workflows_dir].kind # "dir" => \A n \in Names : files[n] = Absent
    /\ dirs[workflows_dir].kind = "dir" =>
          Cardinality({n \in DocNames : Obstructed(files[n], dirs[workflows_dir].w)}) <= MaxObstructed
    /\ files[OtherName] \in {Absent, File(Encode(StaleText, linesep), TRUE)}
    /\ outside = IF dirs[workflows_dir - 1].kind = "dir"
                 THEN File(Encode(StaleText, linesep), TRUE) ELSE Absent
    /\ pc = "mkdir"
    /\ err = ""
    /\ log = <<>>
    /\ stdout = <<>>
    /\ runs = 1
    /\ pre = Snapshot
    /\ prev = [pc |-> "none", fs |-> Snapshot]
    /\ wpc = [v \in DocVars |-> "idle"]

\* --------------------------------------------------------------- actions
\* line 5: workflows_dir.mkdir(parents=True, exist_ok=True)
Mkdir ==
    /\ pc = "mkdir"
    /\ LET r == PathMkdir(dirs, workflows_dir, TRUE, TRUE) IN
       /\ dirs' = r.dirs
       /\ err' = r.err
       /\ pc' = After(pc, r.err)
    /\ log' = Append(log, "mkdir")
    /\ UNCHANGED <<linesep, files, outside, stdout, runs, pre, prev, wpc>>

\* <v>.write_text(r'''...''', encoding='utf-8')
Write(v) ==
    /\ pc = v
    /\ LET r == WriteText(dirs, files, PathOf(v), Payload(v), linesep) IN
       /\ files' = r.files
       /\ err' = r.err
       /\ pc' = After(pc, r.err)
    /\ log' = Append(log, v)
    /\ UNCHANGED <<linesep, dirs, outside, stdout, runs, pre, prev, wpc>>

WriteCi == Write("ci_yml")
WriteStaging == Write("staging_yml")
WriteProduction == Write("production_yml")
WriteLighthouse == Write("lighthouse_yml")
WriteSecurity == Write("security_yml")

\* line 415: print(...)
PrintMessage ==
    /\ pc = "print"
    /\ stdout' = Append(stdout, Message)
    /\ pc' = NextPc(pc)
    /\ UNCHANGED <<linesep, dirs, files, outside, err, log, runs, pre, prev, wpc>>

\* the script is invoked again on the filesystem the last run left
Rerun ==
    /\ pc \in {"done", "error"}
    /\ runs < MaxRuns
    /\ runs' = runs + 1
    /\ prev' = [pc |-> pc, fs |-> Snapshot]
    /\ pre' = Snapshot
    /\ pc' = "mkdir"
    /\ err' = ""
    /\ log' = <<>>
    /\ stdout' = <<>>
    /\ UNCHANGED <<linesep, dirs, files, outside, wpc>>

Next ==
    \/ Mkdir
    \/ WriteCi
    \/ WriteStaging
    \/ WriteProduction
    \/ WriteLighthouse
    \/ WriteSecurity
    \/ PrintMessage
    \/ Rerun

Spec == Init /\ [][Next]_vars

\* ------------------------------------------------- concurrent variant
\* The five write_text calls as five processes started after mkdir has
\* succeeded; open(path, 'w') and the write are separate steps of a process.
ParOpen(v) ==
    /\ pc = NextPc("mkdir")
    /\ wpc[v] = "idle"
    /\ LET r == OsOpenW(dirs, files, PathOf(v)) IN
       /\ files' = r.files
       /\ wpc' = [wpc EXCEPT ![v] = IF r.err = "" THEN "open" ELSE "error"]
    /\ UNCHANGED <<linesep, dirs, outside, pc, err, log, stdout, runs, pre, prev>>

ParWrite(v) ==
    /\ wpc[v] = "open"
    /\ files' = OsWrite(files, PathOf(v), Payload(v), linesep)
    /\ wpc' = [wpc EXCEPT ![v] = "done"]
    /\ UNCHANGED <<linesep, dirs, outside, pc, err, log, stdout, runs, pre, prev>>

ParOpenAny == \E v \in DocVars : ParOpen(v)
ParWriteAny == \E v \in DocVars : ParWrite(v)

NextPar ==
    \/ Mkdir
    \/ ParOpenAny
    \/ ParWriteAny

SpecPar == Init /\ [][NextPar]_vars

\* lines 8-413 in program order: the files the five write_text calls leave,
\* or the error of the first one that fails
RECURSIVE SeqWrites(_, _, _, _)
SeqWrites(d, f, i, sep) ==
    IF i > Len(Docs) THEN [files |-> f, err |-> ""]
    ELSE LET r == WriteText(d, f, PathOf(Docs[i]), Payload(Docs[i]), sep) IN
         IF r.err # "" THEN r ELSE SeqWrites(d, r.files, i + 1, sep)

\* ------------------------------------------------------------ properties
Order == <<"mkdir">> \o Docs

IsPrefix(a, b) == Len(a) <= Len(b) /\ SubSeq(b, 1, Len(a)) = a

Present(f) == {n \in Names : f[n].kind # "absent"}

\* reading the file of path variable v back gives the literal payload
HoldsPayload(f, v) ==
    /\ f[PathOf(v)].kind = "file"
    /\ ReadText(f[PathOf(v)].data) = Payload(v)

\* the target location before the current run was missing, or an empty directory
PreEmpty ==
    \/ pre.dirs[workflows_dir].kind = "absent"
    \/ pre.dirs[workflows_dir].kind = "dir" /\ Present(pre.files) = {}

\* C1: after a successful run each of the five files reads back as exactly its
\* payload, whatever was at the path before the run (full replacement, no
\* merge, no append)
C1_PayloadReplacesContent ==
    pc = "done" =>
        \A v \in DocVars :
            /\ HoldsPayload(files, v)
            /\ files[PathOf(v)].data = Encode(Payload(v), linesep)

C1_Witness ==
    /\ pc = "done"
    /\ pre.files[ci_yml].kind = "file"
    /\ pre.files[ci_yml].data = Encode(StaleText, linesep)
    /\ pre.files[security_yml].kind = "absent"

\* C2: a successful run on an empty or missing target location ends with the
\* five named files in the target directory and no other entry
C2_ExactlyFiveOnEmpty ==
    (pc = "done" /\ PreEmpty) =>
        /\ dirs[workflows_dir].kind = "dir"
        /\ Present(files) = DocNames
        /\ Cardinality(Present(files)) = 5
        /\ \A n \in DocNames : files[n].kind = "file" /\ files[n].data # <<>>

C2_Witness ==
    /\ pc = "done"
    /\ pre.dirs[workflows_dir].kind = "absent"
    /\ Cardinality(Present(files)) = 5

\* C3: a run that follows a successful run succeeds too and leaves the
\* filesystem exactly as the first run left it
C3_SecondRunIdempotent ==
    (runs >= 2 /\ prev.pc = "done") =>
        /\ pc # "error"
        /\ err = ""
        /\ pc = "done" => Snapshot = prev.fs

C3_Witness ==
    /\ runs = 2
    /\ prev.pc = "done"
    /\ pc = "done"
    /\ \A v \in DocVars : HoldsPayload(prev.fs.files, v)

\* C4: the message is printed at most once per run, exactly when the run has
\* completed the directory creation and all five writes; a run that failed is
\* in the error state, has printed nothing and does nothing more
C4_MessageOnlyOnSuccess ==
    /\ [](/\ Len(stdout) <= 1
          /\ stdout # <<>> <=> pc = "done"
          /\ stdout # <<>> =>
                /\ stdout = <<Message>>
                /\ log = Order
                /\ err = ""
                /\ \A v \in DocVars : HoldsPayload(files, v)
          /\ err # "" <=> pc = "error"
          /\ pc = "error" => stdout = <<>>)
    /\ [][pc = "error" => (runs' = runs + 1 /\ stdout' = <<>>)]_vars

C4_Witness ==
    /\ pc = "done"
    /\ stdout = <<Message>>
    /\ Len(log) = 6

\* C5: the first failing step k ends the run at once with the error of the
\* filesystem call: nothing after k is attempted, k is not retried, the files
\* written before k keep their payloads, the files of the writes after k are
\* as before the run; a failed directory creation leaves every file as it was
C5_FailureStopsRun ==
    /\ [](err # "" =>
          LET k == Len(log) - 1 IN
          /\ pc = "error"
          /\ IsPrefix(log, Order)
          /\ k >= 0
          /\ err \in {"EACCES", "ENOTDIR", "EEXIST", "EISDIR"}
          /\ k >= 1 => err = OsOpenW(dirs, files, PathOf(Docs[k])).err
          /\ \A i \in 1..5 : i < k => HoldsPayload(files, Docs[i])
          /\ \A i \in 1..5 : i > k => files[PathOf(Docs[i])] = pre.files[PathOf(Docs[i])]
          /\ k = 0 => (files = pre.files /\ dirs[workflows_dir].kind # "dir"))
    /\ [][pc = "error" => (runs' = runs + 1 /\ log' = <<>>)]_vars

C5_Witness ==
    /\ pc = "error"
    /\ log = <<"mkdir", "ci_yml", "staging_yml", "production_yml">>
    /\ pre.files[ci_yml].kind = "file"
    /\ pre.files[lighthouse_yml].kind = "file"

\* no segment of the path was a non-directory file before the run, and the
\* directory that the first missing segment is created in was writable
NoMkdirObstacle ==
    /\ \A i \in 0..workflows_dir : pre.dirs[i].kind # "file"
    /\ \A i \in 1..workflows_dir :
          (pre.dirs[i].kind = "absent" /\ pre.dirs[i-1].kind = "dir") => pre.dirs[i-1].w

\* C6: with no permission failure and no segment that is a file, directory
\* creation succeeds: an existing target directory and its content are left
\* as they are, missing ancestors and the target are created, and the run
\* goes on to the first write
C6_MkdirSucceeds ==
    (Len(log) >= 1 /\ NoMkdirObstacle) =>
        /\ log[1] = "mkdir"
        /\ \A i \in 0..workflows_dir : dirs[i].kind = "dir"
        /\ \A i \in 0..workflows_dir : pre.dirs[i].kind = "dir" => dirs[i] = pre.dirs[i]
        /\ Len(log) = 1 => (pc = "ci_yml" /\ err = "" /\ files = pre.files /\ outside = pre.outside)
        /\ Len(log) > 1 => log[2] = "ci_yml"

C6_Witness ==
    /\ log = <<"mkdir">>
    /\ pc = "ci_yml"
    /\ pre.dirs[1].kind = "absent"
    /\ pre.dirs[workflows_dir].kind = "absent"
    /\ dirs[workflows_dir].kind = "dir"

\* C7 as stated: after every successful run the target directory holds the
\* five named files and nothing else, whatever it held before
C7_Original ==
    pc = "done" => Present(files) = DocNames

\* C7 amended: after every successful run the five named files are present,
\* and the entries of the target directory are the five files together with
\* whatever other entries it held before the run, which are unchanged
C7_FiveFilesAndPriorEntries ==
    pc = "done" =>
        /\ DocNames \subseteq Present(files)
        /\ Present(files) = DocNames \cup Present(pre.files)
        /\ \A n \in Names \ DocNames : files[n] = pre.files[n]

C7_Witness ==
    /\ pc = "done"
    /\ pre.files[OtherName].kind = "file"
    /\ files[OtherName].kind = "file"
    /\ pre.files[ci_yml].kind = "absent"

\* C8: the operations of a run are attempted in the one order mkdir, ci.yml,
\* deploy-staging.yml, deploy-production.yml, lighthouse.yml,
\* security-scan.yml, each at most once, each only after every earlier one
\* has succeeded
C8_FixedOrder ==
    /\ IsPrefix(log, Order)
    /\ Len(log) >= 2 => dirs[workflows_dir].kind = "dir"
    /\ \A i \in 1..5 : Len(log) > i + 1 => HoldsPayload(files, Docs[i])
    /\ \A i \in 1..Len(log) : \A j \in 1..Len(log) : log[i] = log[j] => i = j
    /\ pc \in {"mkdir"} \cup DocVars => (Len(log) < Len(Order) /\ Order[Len(log) + 1] = pc)

C8_Witness ==
    /\ log = Order
    /\ pc = "done"

\* C10: in every run, failed or not, nothing is deleted and nothing but the
\* chain's missing directories and the five named paths is created or
\* changed: directories and files that were there stay, the other file of the
\* target directory and the file beside it keep existence and content
C10_Frame ==
    /\ \A i \in 0..workflows_dir : pre.dirs[i].kind # "absent" => dirs[i] = pre.dirs[i]
    /\ \A n \in Names \ DocNames : files[n] = pre.files[n]
    /\ outside = pre.outside
    /\ \A n \in DocNames : pre.files[n].kind # "absent" =>
          /\ files[n].kind = pre.files[n].kind
          /\ files[n].w = pre.files[n].w
    /\ \A v \in DocVars : files[PathOf(v)] # pre.files[PathOf(v)] => HoldsPayload(files, v)

C10_Witness ==
    /\ pc = "error"
    /\ Len(log) = 3
    /\ files[OtherName].kind = "file"
    /\ outside.kind = "file"
    /\ files[ci_yml] # pre.files[ci_yml]

\* C9: the five targets are pairwise distinct, so five concurrent writers, in
\* any interleaving of their open and write steps, with no failure, leave the
\* filesystem the sequential program leaves, and no writer changes the file
\* another writer has finished
C9_WritesCommute ==
    /\ []((\A v \in DocVars : wpc[v] = "done") =>
                LET s == SeqWrites(dirs, pre.files, 1, linesep) IN
                /\ s.err = ""
                /\ files = s.files
                /\ \A v \in DocVars : \A u \in DocVars : PathOf(v) = PathOf(u) => v = u)
    /\ [][\A v \in DocVars : wpc[v] = "done" => files'[PathOf(v)] = files[PathOf(v)]]_vars

C9_Witness ==
    /\ \A v \in DocVars : wpc[v] = "done"
    /\ pre.files[ci_yml].kind = "file"
    /\ pre.files[staging_yml].kind = "absent"
    /\ pre.dirs[workflows_dir].kind = "dir"

\* the writers do run out of program order: the last file is written while
\* the first is opened and still empty
C9_OutOfOrder ==
    /\ wpc["security_yml"] = "done"
    /\ wpc["ci_yml"] = "open"
    /\ wpc["staging_yml"] = "idle"

=============================================================================
